---- MODULE Spec2Model ----
(***************************************************************************)
(* Model of the Snake Shooter simulation loop of src/main.py.              *)
(*                                                                         *)
(* Time is counted in ticks of 1/TICKS_PER_SEC second; a frame's dt is a   *)
(* whole number of ticks.  Pixel coordinates are integers; where the code  *)
(* works in floating point (math.hypot, normalised directions) the model   *)
(* uses integer square roots and quotients truncated toward zero.          *)
(* The main loop is one process; pc is its position.  The phases of a      *)
(* frame are the actions below, taken in the order of the source.          *)
(***************************************************************************)
EXTENDS Integers, Sequences, FiniteSets, TLC

\* ------------------------------------------------------------- bounds
GridCells == 3      \* cells per side of the checked window
MaxDt == 2          \* longest frame, in ticks
MaxBullets == 1     \* projectiles alive at once
MaxEnemies == 1     \* agents alive at once
MaxNow == 10         \* ticks of wall-clock time followed by Spec
MaxBlocked == 4     \* blocked cells handed to astar on its own
MaxTrail == 3       \* points of a polyline handed to trim_path_to_length on its own

\* ---------------------------------------------------------- parameters
TICKS_PER_SEC == 20
SIZE == 20
RES == GridCells * SIZE
CELLS == RES \div SIZE
SPEED_CELLS == 15
SPEED == SPEED_CELLS * SIZE
INIT_LEN == 5
BULLET_SPEED == 700
BULLET_RADIUS == 5
BULLET_FADE_TIME == TICKS_PER_SEC \div 4        \* 0.25 s, in ticks
ENEMY_SPAWN_EVERY == (3 * TICKS_PER_SEC) \div 2  \* 1.5 s, in ticks
ENEMY_REPATH_EVERY == TICKS_PER_SEC \div 4      \* 0.25 s, in ticks
BOUNDS_MARGIN == 50

None == <<>>
Dirs == {<<1, 0>>, <<-1, 0>>, <<0, 1>>, <<0, -1>>}
Cells == (0 .. CELLS - 1) \X (0 .. CELLS - 1)
Keys == {"w", "s", "a", "d", "other"}
DtSet == 1 .. MaxDt

VARIABLES pc, dt,
          grid_x, grid_y, dir_x, dir_y, queued_dir, progress,
          x, y, length_cells, path, game_over, body, apple, score,
          bullets, enemies, now, last_spawn_time,
          args, result

vars == <<pc, dt, grid_x, grid_y, dir_x, dir_y, queued_dir, progress,
          x, y, length_cells, path, game_over, body, apple, score,
          bullets, enemies, now, last_spawn_time, args, result>>

\* the arguments and the result of a function applied on its own
harness == <<args, result>>

\* the discrete snake state other than the queued direction
snakeVars == <<grid_x, grid_y, dir_x, dir_y, progress, length_cells, body, apple, score>>

\* ------------------------------------------------------------ helpers
Abs(n) == IF n < 0 THEN -n ELSE n

\* quotient truncated toward zero (Python float division then int())
TruncDiv(a, b) == IF (a < 0) # (b < 0) THEN -(Abs(a) \div Abs(b)) ELSE Abs(a) \div Abs(b)

RECURSIVE IsqrtFrom(_, _)
IsqrtFrom(n, r) == IF (r + 1) * (r + 1) > n THEN r ELSE IsqrtFrom(n, r + 1)

\* math.hypot on the integer lattice, rounded down
Hypot(dx, dy) ==
    IF dy = 0 THEN Abs(dx)
    ELSE IF dx = 0 THEN Abs(dy)
    ELSE IsqrtFrom(dx * dx + dy * dy, 0)

\* ----------------------------------------------------- grid and turns
move_to_cell(xc, yc, dx, dy) ==
    LET nx == xc + dx
        ny == yc + dy
    IN  IF nx < 0 \/ nx >= CELLS \/ ny < 0 \/ ny >= CELLS THEN None ELSE <<nx, ny>>

\* mutant: every turn is legal
can_turnMut(current, new) == TRUE

can_turn(current, new) == ~(current[1] = -new[1] /\ current[2] = -new[2])

KeyDir(key, cur) ==
    CASE key = "w" -> <<0, -1>>
      [] key = "s" -> <<0, 1>>
      [] key = "a" -> <<-1, 0>>
      [] key = "d" -> <<1, 0>>
      [] OTHER -> cur

\* mutant: a key is queued without the legality test
QueueOnKeyMut(cur, queued, key) ==
    LET nd == KeyDir(key, cur)
    IN  IF nd # cur THEN nd ELSE queued

\* the direction queued after a KEYDOWN event
QueueOnKey(cur, queued, key) ==
    LET nd == KeyDir(key, cur)
    IN  IF nd # cur /\ can_turn(cur, nd) THEN nd ELSE queued

\* the heading a discrete step moves with
ApplyQueued(cur, queued) ==
    IF queued # cur /\ can_turn(cur, queued) THEN queued ELSE cur

RECURSIVE PopLeftTo(_, _)
PopLeftTo(b, n) == IF Len(b) > n THEN PopLeftTo(Tail(b), n) ELSE b

InSeq(e, s) == \E i \in 1 .. Len(s) : s[i] = e

\* mutant: the self-intersection test is left out
SelfHitMut(cell, b) == FALSE

\* (grid_x, grid_y) in body
SelfHit(cell, b) == InSeq(cell, b)

\* ------------------------------------------------------- trail polyline
SegLen(p, q) == Hypot(q[1] - p[1], q[2] - p[2])

RECURSIVE PathLen(_)
PathLen(p) == IF Len(p) <= 1 THEN 0 ELSE SegLen(p[1], p[2]) + PathLen(Tail(p))

\* the loop of trim_path_to_length from segment idx (1 is the newest) on
RECURSIVE TrimFrom(_, _, _, _)
TrimFrom(pts, max_len_px, idx, total) ==
    IF idx > Len(pts) - 1 THEN pts
    ELSE LET d == SegLen(pts[Len(pts) - idx], pts[Len(pts) - idx + 1])
         IN  IF total + d >= max_len_px
             THEN LET keep_from == Len(pts) - idx
                      leftover  == max_len_px - total
                      p0 == pts[keep_from]
                      p1 == pts[keep_from + 1]
                      s  == SegLen(p0, p1)
                      seg_len == IF s = 0 THEN 1 ELSE s
                      \* x1 + (x0 - x1) * (1 - t), t = leftover / seg_len
                      new_tail == <<p1[1] + TruncDiv((p0[1] - p1[1]) * (seg_len - leftover), seg_len),
                                    p1[2] + TruncDiv((p0[2] - p1[2]) * (seg_len - leftover), seg_len)>>
                  IN  <<new_tail>> \o SubSeq(pts, keep_from + 1, Len(pts))
             ELSE TrimFrom(pts, max_len_px, idx + 1, total + d)

trim_path_to_length(path_deque, max_len_px) ==
    IF Len(path_deque) <= 1 THEN path_deque
    ELSE TrimFrom(path_deque, max_len_px, 1, 0)

\* ----------------------------------------------------------- pathfinder
InBounds(c) == 0 <= c[1] /\ c[1] < CELLS /\ 0 <= c[2] /\ c[2] < CELLS

NeighbourDirs == << <<1, 0>>, <<-1, 0>>, <<0, 1>>, <<0, -1>> >>

INF == 1000000000

\* Manhattan distance to the goal
h(c, goal) == Abs(c[1] - goal[1]) + Abs(c[2] - goal[2])

\* mutant: the heap compares cells before costs
HeapLessMut(a, b) ==
    \/ a[3][1] < b[3][1]
    \/ a[3][1] = b[3][1] /\ a[3][2] < b[3][2]
    \/ a[3] = b[3] /\ a[1] < b[1]
    \/ a[3] = b[3] /\ a[1] = b[1] /\ a[2] < b[2]

\* tuple order of the heap entries (f, g, (x, y))
HeapLess(a, b) ==
    \/ a[1] < b[1]
    \/ a[1] = b[1] /\ a[2] < b[2]
    \/ a[1] = b[1] /\ a[2] = b[2] /\ a[3][1] < b[3][1]
    \/ a[1] = b[1] /\ a[2] = b[2] /\ a[3][1] = b[3][1] /\ a[3][2] < b[3][2]

\* heapq.heappop: the least entry of the open heap
HeapMin(openh) == CHOOSE a \in openh : \A b \in openh : a = b \/ HeapLess(a, b)

\* mutant: the blocked test is left out
PassableMut(n, goal, blocked) == InBounds(n)

\* whether a neighbour may be entered
Passable(n, goal, blocked) == InBounds(n) /\ ~(n \in blocked /\ n # goal)

\* the for loop over the four neighbours of c, from the i-th on;
\* st is [openh, came, g]
RECURSIVE Relax(_, _, _, _, _, _)
Relax(st, c, gc, goal, blocked, i) ==
    IF i > Len(NeighbourDirs) THEN st
    ELSE LET n  == <<c[1] + NeighbourDirs[i][1], c[2] + NeighbourDirs[i][2]>>
             ng == gc + 1
         IN  IF Passable(n, goal, blocked) /\ ng < st.g[n]
             THEN Relax([openh |-> st.openh \cup {<<ng + h(n, goal), ng, n>>},
                         came  |-> [st.came EXCEPT ![n] = c],
                         g     |-> [st.g EXCEPT ![n] = ng]],
                        c, gc, goal, blocked, i + 1)
             ELSE Relax(st, c, gc, goal, blocked, i + 1)

\* mutant: the reconstruction stops one cell early and loses start
RECURSIVE ReconstructMut(_, _)
ReconstructMut(came, c) ==
    IF came[c] = None THEN <<>> ELSE Append(ReconstructMut(came, came[c]), c)

\* path reconstruction through came, goal first
RECURSIVE Reconstruct(_, _)
Reconstruct(came, c) ==
    IF came[c] = None THEN <<c>> ELSE Append(Reconstruct(came, came[c]), c)

\* the while loop over the open heap
RECURSIVE Search(_, _, _, _, _)
Search(st, visited, start, goal, blocked) ==
    IF st.openh = {} THEN <<start>>
    ELSE LET top  == HeapMin(st.openh)
             rest == [st EXCEPT !.openh = st.openh \ {top}]
             c    == top[3]
         IN  IF c \in visited THEN Search(rest, visited, start, goal, blocked)
             ELSE IF c = goal THEN Reconstruct(st.came, c)
             ELSE Search(Relax(rest, c, top[2], goal, blocked, 1),
                         visited \cup {c}, start, goal, blocked)

astar(start, goal, blocked) ==
    IF ~InBounds(start) THEN <<>>
    ELSE IF ~InBounds(goal) THEN <<>>
    ELSE Search([openh |-> {<<h(start, goal), 0, start>>},
                 came  |-> [c \in Cells |-> None],
                 g     |-> [c \in Cells |-> IF c = start THEN 0 ELSE INF]],
                {}, start, goal, blocked)

\* ---------------------------------------------------------------- agents
\* (name, hp, speed in cells per second)
TYPES == << <<"pink", 1, 15>>, <<"red", 3, 5>>, <<"maroon", 15, 2>> >>

Center(c) == <<c[1] * SIZE + SIZE \div 2, c[2] * SIZE + SIZE \div 2>>

\* Enemy.__init__
Enemy(kind, cell) ==
    [name |-> TYPES[kind][1], hp |-> TYPES[kind][2], speed_px |-> TYPES[kind][3] * SIZE,
     cell |-> cell, pos |-> Center(cell), path |-> <<>>, next_idx |-> 0,
     repath_timer |-> 0]

\* the cells spawn_enemy can pick: the four edges of the grid
SpawnCells ==
    {<<cx, 0>> : cx \in 0 .. CELLS - 1} \cup {<<cx, CELLS - 1>> : cx \in 0 .. CELLS - 1}
    \cup {<<0, cy>> : cy \in 0 .. CELLS - 1} \cup {<<CELLS - 1, cy>> : cy \in 0 .. CELLS - 1}

\* mutant: the replan starts from the cell under the agent's pixel position
ReplanMut(e, n, target_cell, blocked_cells) ==
    LET t == e.repath_timer - n
    IN  IF t <= 0 \/ e.path = <<>>
        THEN LET p == astar(<<e.pos[1] \div SIZE, e.pos[2] \div SIZE>>, target_cell, blocked_cells)
             IN  [e EXCEPT !.path = p,
                           !.next_idx = IF Len(p) > 1 THEN 1 ELSE 0,
                           !.repath_timer = ENEMY_REPATH_EVERY]
        ELSE [e EXCEPT !.repath_timer = t]

\* Enemy.update, first half: the periodic replan
Replan(e, n, target_cell, blocked_cells) ==
    LET t == e.repath_timer - n
    IN  IF t <= 0 \/ e.path = <<>>
        THEN LET p == astar(e.cell, target_cell, blocked_cells)
             IN  [e EXCEPT !.path = p,
                           !.next_idx = IF Len(p) > 1 THEN 1 ELSE 0,
                           !.repath_timer = ENEMY_REPATH_EVERY]
        ELSE [e EXCEPT !.repath_timer = t]

\* Enemy.update, second half: the move toward path[next_idx] (0-based)
Advance(e, n) ==
    IF e.next_idx < Len(e.path)
    THEN LET nxt  == e.path[e.next_idx + 1]
             tpx  == Center(nxt)
             dx   == tpx[1] - e.pos[1]
             dy   == tpx[2] - e.pos[2]
             dist == Hypot(dx, dy)
             step == (e.speed_px * n) \div TICKS_PER_SEC
         IN  IF dist > 0
             THEN IF step >= dist
                  THEN [e EXCEPT !.pos = tpx, !.cell = nxt, !.next_idx = e.next_idx + 1]
                  ELSE [e EXCEPT !.pos = <<e.pos[1] + TruncDiv(dx * step, dist),
                                           e.pos[2] + TruncDiv(dy * step, dist)>>]
             ELSE e
    ELSE e

EnemyUpdate(e, n, target_cell, blocked_cells) ==
    Advance(Replan(e, n, target_cell, blocked_cells), n)

\* pygame rectangles as <<left, top, width, height>>
EnemyRect(e) == <<e.pos[1] - (SIZE - 2) \div 2, e.pos[2] - (SIZE - 2) \div 2, SIZE - 2, SIZE - 2>>

head_rect(hx, hy) == <<hx + 2, hy + 2, SIZE - 4, SIZE - 4>>

collidepoint(r, px, py) ==
    r[1] <= px /\ px < r[1] + r[3] /\ r[2] <= py /\ py < r[2] + r[4]

colliderect(a, b) ==
    a[1] < b[1] + b[3] /\ b[1] < a[1] + a[3] /\ a[2] < b[2] + b[4] /\ b[2] < a[2] + a[4]

\* ----------------------------------------------------------- projectiles
\* the bullet created by a right click at (mx, my) with the head at (hx, hy);
\* hits counts the hp decrements the bullet has caused (history)
NewBullet(hx, hy, mx, my) ==
    LET vx == mx - hx
        vy == my - hy
        d0 == Hypot(vx, vy)
        d  == IF d0 = 0 THEN 1 ELSE d0
    IN  [pos |-> <<hx, hy>>,
         vel |-> <<TruncDiv(vx * BULLET_SPEED, d), TruncDiv(vy * BULLET_SPEED, d)>>,
         r |-> 10 * BULLET_RADIUS, hit |-> FALSE, t_hit |-> 0, alpha |-> 255, hits |-> 0]

OutOfBounds(p) ==
    \/ p[1] < -BOUNDS_MARGIN \/ p[1] > RES + BOUNDS_MARGIN
    \/ p[2] < -BOUNDS_MARGIN \/ p[2] > RES + BOUNDS_MARGIN

\* one bullet's update for a frame of n ticks (r is kept in tenths of a pixel)
MoveBullet(b, n) ==
    IF ~b.hit
    THEN [b EXCEPT !.pos = <<b.pos[1] + TruncDiv(b.vel[1] * n, TICKS_PER_SEC),
                             b.pos[2] + TruncDiv(b.vel[2] * n, TICKS_PER_SEC)>>]
    ELSE LET t == b.t_hit + n
             a == (255 * (BULLET_FADE_TIME - t)) \div BULLET_FADE_TIME
         IN  [b EXCEPT !.t_hit = t,
                       !.r = 10 * BULLET_RADIUS + (6 * BULLET_RADIUS * t) \div BULLET_FADE_TIME,
                       !.alpha = IF a < 0 THEN 0 ELSE a]

\* whether the updated bullet is removed from the list
Culled(b) == IF ~b.hit THEN OutOfBounds(b.pos) ELSE b.t_hit >= BULLET_FADE_TIME

\* the loop over bullets[:] of the bullet update
RECURSIVE UpdateBullets(_, _)
UpdateBullets(bs, n) ==
    IF bs = <<>> THEN <<>>
    ELSE LET b == MoveBullet(Head(bs), n)
         IN  IF Culled(b) THEN UpdateBullets(Tail(bs), n)
             ELSE <<b>> \o UpdateBullets(Tail(bs), n)

RemoveAt(s, i) == SubSeq(s, 1, i - 1) \o SubSeq(s, i + 1, Len(s))

\* index of the first enemy whose rectangle contains the point, 0 if none
FirstHit(es, p) ==
    IF \E i \in 1 .. Len(es) : collidepoint(EnemyRect(es[i]), p[1], p[2])
    THEN CHOOSE i \in 1 .. Len(es) :
            /\ collidepoint(EnemyRect(es[i]), p[1], p[2])
            /\ \A j \in 1 .. i - 1 : ~collidepoint(EnemyRect(es[j]), p[1], p[2])
    ELSE 0

\* mutant: bullets already marked hit are tested again
TestedMut(b) == TRUE

\* whether the collision pass tests a bullet against the agents
Tested(b) == ~b.hit

\* mutant: an agent whose hp reaches 0 stays in the list
HitEnemyMut(es, i) == [es EXCEPT ![i] = [es[i] EXCEPT !.hp = es[i].hp - 1]]

\* mutant: the removal test is hp < 0
HitEnemyLate(es, i) ==
    LET e == [es[i] EXCEPT !.hp = es[i].hp - 1]
    IN  IF e.hp < 0 THEN RemoveAt(es, i) ELSE [es EXCEPT ![i] = e]

\* the enemy list after a hit on es[i]
HitEnemy(es, i) ==
    LET e == [es[i] EXCEPT !.hp = es[i].hp - 1]
    IN  IF e.hp <= 0 THEN RemoveAt(es, i) ELSE [es EXCEPT ![i] = e]

\* the bullet after it scored a hit
HitBullet(b) ==
    [b EXCEPT !.hit = TRUE, !.vel = <<0, 0>>, !.alpha = 255, !.t_hit = 0, !.hits = b.hits + 1]

\* the bullet/enemy collision loops, from bullet k on; returns <<bullets, enemies>>
RECURSIVE CollideFrom(_, _, _)
CollideFrom(bs, es, k) ==
    IF k > Len(bs) THEN <<bs, es>>
    ELSE IF ~Tested(bs[k]) THEN CollideFrom(bs, es, k + 1)
    ELSE LET i == FirstHit(es, bs[k].pos)
         IN  IF i = 0 THEN CollideFrom(bs, es, k + 1)
             ELSE CollideFrom([bs EXCEPT ![k] = HitBullet(bs[k])], HitEnemy(es, i), k + 1)

\* the agent/head overlap test
HeadHit(es, hx, hy) == \E i \in 1 .. Len(es) : colliderect(EnemyRect(es[i]), head_rect(hx, hy))

SeqToSet(s) == {s[i] : i \in 1 .. Len(s)}

\* ---------------------------------------------------------------- Init
\* mouse positions of a right click, relative to the head centre
AimOffsets == {<<0, 0>>, <<20, 0>>, <<0, -20>>, <<-15, 20>>}

\* time.time() when the loop starts; any value at least ENEMY_SPAWN_EVERY
\* after last_spawn_time = 0.0 behaves alike
Epoch == ENEMY_SPAWN_EVERY

\* the state after the module-level initialisation, with the first apple at a
GameStart(a) ==
    /\ dt = 0
    /\ grid_x = CELLS \div 2
    /\ grid_y = CELLS \div 2
    /\ dir_x = 1
    /\ dir_y = 0
    /\ queued_dir = <<1, 0>>
    /\ progress = 0
    /\ x = (CELLS \div 2) * SIZE
    /\ y = (CELLS \div 2) * SIZE
    /\ length_cells = INIT_LEN
    /\ path = << <<(CELLS \div 2) * SIZE, (CELLS \div 2) * SIZE>> >>
    /\ game_over = FALSE
    /\ body = << <<CELLS \div 2, CELLS \div 2>> >>
    /\ apple = a
    /\ score = 0
    /\ bullets = <<>>
    /\ enemies = <<>>
    /\ now = Epoch
    /\ last_spawn_time = 0

InitState(a) ==
    /\ pc = "tick"
    /\ args = None
    /\ result = None
    /\ GameStart(a)

Init == \E a \in Cells : InitState(a)

\* the first apples Spec follows
AppleStart == {<<0, 0>>}

InitGame == \E a \in AppleStart : InitState(a)

\* ------------------------------------------------------------- actions
\* dt = clock.tick(60) / 1000.0; now = time.time().  With clock the wall
\* clock is followed, up to MaxNow ticks; without, no phase reads it
Tick(n, clock) ==
    /\ pc = "tick"
    /\ dt' = n
    /\ IF clock
       THEN now + n <= Epoch + MaxNow /\ now' = now + n
       ELSE now' = now
    /\ pc' = "events"
    /\ UNCHANGED <<harness, snakeVars, queued_dir, x, y, path, game_over, bullets, enemies,
                   last_spawn_time>>

\* pygame.QUIT
Quit ==
    /\ pc = "events"
    /\ pc' = "exit"
    /\ UNCHANGED <<harness, dt, snakeVars, queued_dir, x, y, path, game_over, bullets, enemies,
                   now, last_spawn_time>>

\* pygame.KEYDOWN
KeyDown(key) ==
    /\ pc = "events"
    /\ queued_dir' = QueueOnKey(<<dir_x, dir_y>>, queued_dir, key)
    /\ UNCHANGED <<harness, pc, dt, snakeVars, x, y, path, game_over, bullets, enemies, now, last_spawn_time>>

\* pygame.MOUSEBUTTONDOWN, button 3, with the mouse at head centre + off
Fire(off) ==
    /\ pc = "events"
    /\ Len(bullets) < MaxBullets
    /\ LET hx == x + SIZE \div 2
           hy == y + SIZE \div 2
       IN  /\ 0 <= hx + off[1] /\ hx + off[1] < RES
           /\ 0 <= hy + off[2] /\ hy + off[2] < RES
           /\ bullets' = Append(bullets, NewBullet(hx, hy, hx + off[1], hy + off[2]))
    /\ UNCHANGED <<harness, pc, dt, snakeVars, queued_dir, x, y, path, game_over, enemies, now, last_spawn_time>>

\* the event queue is drained: progress += move_px / SIZE
EndEvents ==
    /\ pc = "events"
    /\ progress' = progress + SPEED_CELLS * dt
    /\ pc' = "move"
    /\ UNCHANGED <<harness, dt, grid_x, grid_y, dir_x, dir_y, queued_dir, x, y, length_cells,
                   path, game_over, body, apple, score, bullets, enemies, now, last_spawn_time>>

\* one iteration of: while progress >= 1.0 and not game_over
StepBody ==
    /\ pc = "move"
    /\ progress >= TICKS_PER_SEC /\ ~game_over
    /\ progress' = progress - TICKS_PER_SEC
    /\ LET d == ApplyQueued(<<dir_x, dir_y>>, queued_dir)
           new_cell == move_to_cell(grid_x, grid_y, d[1], d[2])
       IN  /\ dir_x' = d[1]
           /\ dir_y' = d[2]
           /\ IF new_cell = None
              THEN /\ game_over' = TRUE
                   /\ UNCHANGED <<harness, grid_x, grid_y, body, length_cells, score, apple>>
              ELSE /\ grid_x' = new_cell[1]
                   /\ grid_y' = new_cell[2]
                   /\ IF SelfHit(new_cell, body)
                      THEN /\ game_over' = TRUE
                           /\ UNCHANGED <<harness, body, length_cells, score, apple>>
                      ELSE LET nb == PopLeftTo(Append(body, new_cell), length_cells)
                           IN  /\ body' = nb
                               /\ game_over' = FALSE
                               /\ IF new_cell = apple
                                  THEN /\ length_cells' = length_cells + 1
                                       /\ score' = score + 1
                                       /\ \E a \in Cells : ~InSeq(a, nb) /\ apple' = a
                                  ELSE UNCHANGED <<harness, length_cells, score, apple>>
    /\ UNCHANGED <<harness, pc, dt, queued_dir, x, y, path, bullets, enemies, now, last_spawn_time>>

\* the step loop is left: interpolated head position, then (trail) the
\* trail append and trim
Interp(nextpc, trail) ==
    /\ pc = "move"
    /\ ~(progress >= TICKS_PER_SEC /\ ~game_over)
    /\ LET nx == grid_x * SIZE - dir_x * ((SIZE * (TICKS_PER_SEC - progress)) \div TICKS_PER_SEC)
           ny == grid_y * SIZE - dir_y * ((SIZE * (TICKS_PER_SEC - progress)) \div TICKS_PER_SEC)
       IN  /\ x' = nx
           /\ y' = ny
           /\ path' = IF trail
                      THEN trim_path_to_length(Append(path, <<nx, ny>>), length_cells * SIZE)
                      ELSE path
    /\ pc' = nextpc
    /\ UNCHANGED <<harness, dt, snakeVars, queued_dir, game_over, bullets, enemies, now, last_spawn_time>>

\* mutant: the bullet update is the last thing before the collision pass,
\* the spawn and the agent update having run ahead of it
BulletPhaseMut ==
    /\ pc = "bullets"
    /\ bullets' = UpdateBullets(bullets, dt)
    /\ pc' = "collide"
    /\ UNCHANGED <<harness, dt, snakeVars, queued_dir, x, y, path, game_over, enemies, now, last_spawn_time>>

\* the bullet update loop
BulletPhase ==
    /\ pc = "bullets"
    /\ bullets' = UpdateBullets(bullets, dt)
    /\ pc' = "spawn"
    /\ UNCHANGED <<harness, dt, snakeVars, queued_dir, x, y, path, game_over, enemies, now, last_spawn_time>>

SpawnDue == now - last_spawn_time >= ENEMY_SPAWN_EVERY /\ ~game_over

\* the spawn timer fires: enemies.append(spawn_enemy())
Spawn(kind, cell) ==
    /\ pc = "spawn"
    /\ SpawnDue
    /\ Len(enemies) < MaxEnemies
    /\ enemies' = Append(enemies, Enemy(kind, cell))
    /\ last_spawn_time' = now
    /\ pc' = "enemies"
    /\ UNCHANGED <<harness, dt, snakeVars, queued_dir, x, y, path, game_over, bullets, now>>

\* the spawn timer does not fire
NoSpawn ==
    /\ pc = "spawn"
    /\ ~SpawnDue
    /\ pc' = "enemies"
    /\ UNCHANGED <<harness, dt, snakeVars, queued_dir, x, y, path, game_over, bullets, enemies,
                   now, last_spawn_time>>

\* the loop calling e.update for every enemy
EnemyPhase ==
    /\ pc = "enemies"
    /\ enemies' = [i \in 1 .. Len(enemies) |->
                     EnemyUpdate(enemies[i], dt, <<grid_x, grid_y>>, SeqToSet(body))]
    /\ pc' = "collide"
    /\ UNCHANGED <<harness, dt, snakeVars, queued_dir, x, y, path, game_over, bullets, now, last_spawn_time>>

\* bullet/enemy collisions
CollidePhase ==
    /\ pc = "collide"
    /\ LET res == CollideFrom(bullets, enemies, 1)
       IN  /\ bullets' = res[1]
           /\ enemies' = res[2]
    /\ pc' = "head"
    /\ UNCHANGED <<harness, dt, snakeVars, queued_dir, x, y, path, game_over, now, last_spawn_time>>

\* enemy/head collisions
HeadPhase ==
    /\ pc = "head"
    /\ game_over' = (game_over \/ HeadHit(enemies, x, y))
    /\ pc' = "render"
    /\ UNCHANGED <<harness, dt, snakeVars, queued_dir, x, y, path, bullets, enemies, now, last_spawn_time>>

\* mutant: the game-over exit is left out
RenderMut ==
    /\ pc = "render"
    /\ pc' = "tick"
    /\ dt' = 0
    /\ UNCHANGED <<harness, snakeVars, queued_dir, x, y, path, game_over, bullets, enemies, now, last_spawn_time>>

\* end of frame: the game-over exit, or display.flip and the next frame
Render ==
    /\ pc = "render"
    /\ pc' = IF game_over THEN "exit" ELSE "tick"
    /\ dt' = 0
    /\ UNCHANGED <<harness, snakeVars, queued_dir, x, y, path, game_over, bullets, enemies, now, last_spawn_time>>

\* the whole frame loop; the trail polyline, which no other phase reads,
\* is followed in SpecTrail
Next ==
    \/ \E n \in DtSet : Tick(n, TRUE)
    \/ Quit
    \/ \E key \in Keys : KeyDown(key)
    \/ \E off \in AimOffsets : Fire(off)
    \/ EndEvents
    \/ StepBody
    \/ Interp("bullets", FALSE)
    \/ BulletPhase
    \/ \E kind \in 1 .. Len(TYPES), cell \in SpawnCells : Spawn(kind, cell)
    \/ NoSpawn
    \/ EnemyPhase
    \/ CollidePhase
    \/ HeadPhase
    \/ Render

Spec == InitGame /\ [][Next]_vars

\* the player body alone: no phase of this slice reads agents, projectiles,
\* the trail or the clock
NextSnake ==
    \/ \E n \in DtSet : Tick(n, FALSE)
    \/ \E key \in Keys : KeyDown(key)
    \/ EndEvents
    \/ StepBody
    \/ Interp("render", FALSE)
    \/ Render

SpecSnake == Init /\ [][NextSnake]_vars

\* the player body and its trail, for MaxNow ticks: no phase of this slice
\* reads agents or projectiles
NextTrail ==
    \/ \E n \in DtSet : Tick(n, TRUE)
    \/ \E key \in Keys : KeyDown(key)
    \/ EndEvents
    \/ StepBody
    \/ Interp("render", TRUE)
    \/ Render

SpecTrail == InitGame /\ [][NextTrail]_vars

\* ------------------------------------------------------------ player body
Opposite(d) == <<-d[1], -d[2]>>

\* the step loop is about to run an iteration
Stepping == pc = "move" /\ progress >= TICKS_PER_SEC /\ ~game_over

\* C1: while the game is not over, the cells of the body are pairwise distinct
BodyDistinct ==
    ~game_over => \A i, j \in 1 .. Len(body) : i # j => body[i] # body[j]

\* a body that grew past its first length and was trimmed, game still on
BodyDistinctWitness ==
    /\ ~game_over
    /\ score >= 1
    /\ Len(body) = length_cells
    /\ pc = "tick"

\* C2: a queued direction opposite to the heading leaves the heading as it
\* is (for each of the four headings), and no discrete step reverses the
\* heading, whatever keys were pressed before it
TurnLegality ==
    /\ \A c \in Dirs : ApplyQueued(c, Opposite(c)) = c
    /\ [][Stepping =>
            /\ <<dir_x', dir_y'>> # Opposite(<<dir_x, dir_y>>)
            /\ (queued_dir = Opposite(<<dir_x, dir_y>>)
                    => <<dir_x', dir_y'>> = <<dir_x, dir_y>>)]_vars

\* steps have turned the snake from east to south and then to west
TurnLegalityWitness ==
    /\ <<dir_x, dir_y>> = <<-1, 0>>
    /\ Len(body) >= 3
    /\ body[Len(body)] = <<grid_x, grid_y>>
    /\ ~game_over

\* C18: the queued direction is never the opposite of the heading, and right
\* after every discrete step that does not end the game the heading is the
\* queued direction
QueuedNeverOpposite ==
    /\ [](queued_dir # Opposite(<<dir_x, dir_y>>))
    /\ [][(Stepping /\ ~game_over') => <<dir_x', dir_y'>> = queued_dir']_vars

\* a step is about to run with a turn queued and not yet applied, after
\* earlier steps have already turned the player away from its first heading
QueuedNeverOppositeWitness ==
    /\ Stepping
    /\ queued_dir # <<dir_x, dir_y>>
    /\ <<dir_x, dir_y>> # <<1, 0>>
    /\ Len(body) >= 3

\* C16: in every state, the frame that ends the game included, the head cell
\* is the last element of the body
HeadIsLast == <<grid_x, grid_y>> = body[Len(body)]

\* ------------------------------------------------------------------ agents
FrameBoundary == pc \in {"tick", "exit"}

\* C6: at every frame boundary the cell of every live agent is one of the
\* cells of its planned path
AgentCellOnPath ==
    FrameBoundary => \A i \in 1 .. Len(enemies) : InSeq(enemies[i].cell, enemies[i].path)

\* an agent that was replanned on the timer, has since arrived at a cell of
\* the new path and is part-way to the next
AgentCellOnPathWitness ==
    /\ pc = "tick"
    /\ \E i \in 1 .. Len(enemies) :
          /\ now - last_spawn_time > ENEMY_REPATH_EVERY
          /\ enemies[i].next_idx >= 2
          /\ enemies[i].pos # Center(enemies[i].cell)
          /\ InSeq(enemies[i].cell, enemies[i].path)

\* C15: an agent whose planned path has exactly one cell because astar found
\* no route from its cell to the head's cell is left where it is by its
\* update: neither its cell nor its pixel position changes
OneCellPathStays ==
    [][pc = "enemies" =>
          \A i \in 1 .. Len(enemies) :
              (Len(enemies'[i].path) = 1 /\ enemies[i].cell # <<grid_x, grid_y>>) =>
                  /\ enemies'[i].cell = enemies[i].cell
                  /\ enemies'[i].pos = enemies[i].pos]_vars

\* ------------------------------------------------------------------ trail
\* C10: at the end of every frame the polyline length of the trail is at most
\* length_cells * SIZE
TrailBound ==
    pc \in {"render", "tick", "exit"} => PathLen(path) <= length_cells * SIZE

KillBeforeHeadTest ==
    [][/\ Len(enemies') < Len(enemies) => (pc = "collide" /\ pc' = "head")
       /\ pc' = "head" => \A i \in 1 .. Len(enemies') : enemies'[i].hp >= 1
       /\ (pc = "head" /\ ~game_over /\ game_over') =>
              \E i \in 1 .. Len(enemies) :
                  /\ enemies[i].hp >= 1
                  /\ colliderect(EnemyRect(enemies[i]), head_rect(x, y))]_vars

\* the head test is about to run in a frame whose kill shot, lying inside the
\* head footprint, removed the only agent; the game goes on
KillBeforeHeadTestWitness ==
    /\ pc = "render"
    /\ ~game_over
    /\ enemies = <<>>
    /\ \E k \in 1 .. Len(bullets) :
          /\ bullets[k].hit
          /\ bullets[k].t_hit = 0
          /\ collidepoint(head_rect(x, y), bullets[k].pos[1], bullets[k].pos[2])

\* C17: every agent in the list has hp >= 1, at every frame boundary and at
\* every position of the loop between two phases
AgentsAlive == \A i \in 1 .. Len(enemies) : enemies[i].hp >= 1

\* a frame boundary after the only agent spawned so far was shot down to
\* hp 0, the projectile that did it still fading
AgentsAliveWitness ==
    /\ pc = "tick"
    /\ enemies = <<>>
    /\ last_spawn_time > 0
    /\ \E k \in 1 .. Len(bullets) : bullets[k].hits = 1

\* C9: every projectile that has not hit anything has a non-zero velocity, in
\* particular the one fired with the aim point on the head centre
FireVelocityNonZero ==
    \A k \in 1 .. Len(bullets) : ~bullets[k].hit => bullets[k].vel # <<0, 0>>

\* ------------------------------------------------------------------ apple
\* the cell the pending discrete step moves the head to, None past the edge
StepTarget ==
    LET d == ApplyQueued(<<dir_x, dir_y>>, queued_dir)
    IN  move_to_cell(grid_x, grid_y, d[1], d[2])

\* the pending discrete step moves the head onto the apple and does not end
\* the game
EatPending ==
    /\ Stepping
    /\ StepTarget # None
    /\ ~InSeq(StepTarget, body)
    /\ StepTarget = apple

\* C12: a discrete step that moves the head onto the apple without ending
\* the game has a cell outside the body to move the apple to, and it adds 1
\* to length_cells, adds 1 to score and leaves the apple on a cell that is
\* not in the body after the step
AppleEaten ==
    /\ [](EatPending =>
            \E a \in Cells :
                ~InSeq(a, PopLeftTo(Append(body, StepTarget), length_cells)))
    /\ [][EatPending =>
            /\ length_cells' = length_cells + 1
            /\ score' = score + 1
            /\ ~InSeq(apple', body')]_vars

\* ------------------------------------------------------------ phase order
\* what a step of the loop did, read off the variables it changed
BodyStepped == progress' < progress

ProjectilesAdvanced ==
    \/ Len(bullets') < Len(bullets)
    \/ /\ Len(bullets') = Len(bullets)
       /\ \E k \in 1 .. Len(bullets) :
              \/ ~bullets[k].hit /\ ~bullets'[k].hit /\ bullets'[k].pos # bullets[k].pos
              \/ bullets[k].hit /\ bullets'[k].t_hit > bullets[k].t_hit

Spawned == Len(enemies') > Len(enemies)

AgentsUpdated ==
    /\ Len(enemies') = Len(enemies)
    /\ \E i \in 1 .. Len(enemies) : enemies'[i].repath_timer # enemies[i].repath_timer

CollisionsResolved ==
    /\ Len(bullets') = Len(bullets)
    /\ \E k \in 1 .. Len(bullets) : ~bullets[k].hit /\ bullets'[k].hit

\* the positions of the loop that come after the agent update of a frame
AfterAgents == {"collide", "head", "render", "tick", "exit"}

AppleNotInBody == ~InSeq(apple, body)

\* --------------------------------------------------------------- game over
\* C11: game_over never goes back to false; once it is true the body takes
\* no further step, the frame in progress ends in the exit, and no frame
\* starts after it
GameOverOneWay ==
    [][game_over =>
          /\ game_over'
          /\ pc' \notin {"tick", "events"}
          /\ UNCHANGED <<body, grid_x, grid_y, dir_x, dir_y, length_cells, score, apple>>
          /\ (pc = "render" => pc' = "exit")]_vars

\* the loop has left through the game-over exit after an agent reached the
\* head
GameOverOneWayWitness ==
    /\ pc = "exit"
    /\ game_over
    /\ HeadHit(enemies, x, y)

\* ------------------------------------------------- astar applied on its own
gameVars == <<dt, snakeVars, queued_dir, x, y, path, game_over, bullets, enemies,
              now, last_spawn_time>>

BlockedSets == {b \in SUBSET Cells : Cardinality(b) <= MaxBlocked}

InitAstar ==
    /\ pc = "call"
    /\ args \in [start : Cells, goal : Cells, blocked : BlockedSets]
    /\ result = None
    /\ GameStart(<<0, 0>>)

CallAstar ==
    /\ pc = "call"
    /\ result' = astar(args.start, args.goal, args.blocked)
    /\ pc' = "return"
    /\ UNCHANGED <<args, gameVars>>

NextAstar == CallAstar

SpecAstar == InitAstar /\ [][NextAstar]_vars

\* -------------------------------------------------------------- pathfinder
Adjacent(a, b) == Abs(a[1] - b[1]) + Abs(a[2] - b[2]) = 1

Manhattan(a, b) == Abs(a[1] - b[1]) + Abs(a[2] - b[2])

\* a cell a path may enter: not blocked, or the goal itself
Enterable(n, goal, blocked) == n \notin blocked \/ n = goal

\* the cells reached from the cells of seen by moves into enterable cells
RECURSIVE ReachFrom(_, _, _)
ReachFrom(seen, goal, blocked) ==
    LET more == {n \in Cells : /\ n \notin seen
                                /\ Enterable(n, goal, blocked)
                                /\ \E c \in seen : Adjacent(c, n)}
    IN  IF more = {} THEN seen ELSE ReachFrom(seen \cup more, goal, blocked)

Reachable(start, goal, blocked) == goal \in ReachFrom({start}, goal, blocked)

Returned == pc = "return"

\* C3: whenever goal is reachable from start through passable cells (goal
\* passable even when blocked), astar returns a sequence that starts at start,
\* ends at goal and moves between 4-adjacent cells
AstarSound ==
    (Returned /\ Reachable(args.start, args.goal, args.blocked)) =>
        /\ Len(result) >= 1
        /\ result[1] = args.start
        /\ result[Len(result)] = args.goal
        /\ \A i \in 1 .. Len(result) - 1 : Adjacent(result[i], result[i + 1])

\* a reachable goal two or more moves away, behind a blocked cell
AstarSoundWitness ==
    /\ Returned
    /\ Reachable(args.start, args.goal, args.blocked)
    /\ args.goal \in args.blocked
    /\ Len(result) > Manhattan(args.start, args.goal) + 1

\* C4: whenever start # goal and goal is not reachable from start, astar
\* returns exactly <<start>>
AstarNoRoute ==
    (Returned /\ args.start # args.goal
        /\ ~Reachable(args.start, args.goal, args.blocked)) =>
        result = <<args.start>>

\* an unreachable goal was searched for
AstarNoRouteWitness ==
    /\ Returned
    /\ args.start # args.goal
    /\ ~Reachable(args.start, args.goal, args.blocked)
    /\ result = <<args.start>>

\* breadth-first distance from the cells of seen (at distance d) to goal
RECURSIVE BfsDist(_, _, _, _)
BfsDist(seen, d, goal, blocked) ==
    IF goal \in seen THEN d
    ELSE LET more == {n \in Cells : /\ n \notin seen
                                     /\ Enterable(n, goal, blocked)
                                     /\ \E c \in seen : Adjacent(c, n)}
         IN  IF more = {} THEN INF ELSE BfsDist(seen \cup more, d + 1, goal, blocked)

\* C5: whenever astar returns a path ending at goal, its number of moves is
\* the breadth-first distance from start to goal
AstarOptimal ==
    (Returned /\ Len(result) >= 1 /\ result[Len(result)] = args.goal) =>
        Len(result) - 1 = BfsDist({args.start}, 0, args.goal, args.blocked)

\* a shortest path that is longer than the Manhattan distance
AstarOptimalWitness ==
    /\ Returned
    /\ Len(result) >= 1
    /\ result[Len(result)] = args.goal
    /\ Len(result) - 1 > Manhattan(args.start, args.goal)

\* ------------------------------ trim_path_to_length applied on its own
\* trail points whose pairwise distances are whole numbers of pixels
TrailPoints == {<<0, 0>>, <<30, 0>>, <<60, 0>>, <<30, 40>>}

\* length budgets, in pixels
TrailBudgets == {10, 50, 100}

Polylines == UNION {[1 .. n -> TrailPoints] : n \in 1 .. MaxTrail}

InitTrim ==
    /\ pc = "call"
    /\ args \in [path_deque : Polylines, max_len_px : TrailBudgets]
    /\ result = None
    /\ GameStart(<<0, 0>>)

CallTrim ==
    /\ pc = "call"
    /\ result' = trim_path_to_length(args.path_deque, args.max_len_px)
    /\ pc' = "return"
    /\ UNCHANGED <<args, gameVars>>

NextTrim == CallTrim

SpecTrim == InitTrim /\ [][NextTrim]_vars

\* C14: called on a polyline at least max_len_px long, trim_path_to_length
\* leaves a polyline of length exactly max_len_px
TrimExact ==
    (Returned /\ PathLen(args.path_deque) >= args.max_len_px)
        => PathLen(result) = args.max_len_px

(***************************************************************************)
(* The frame loop run for ever.  The wall clock is kept up to translation: *)
(* now stays where it is and last_spawn_time moves back by the elapsed     *)
(* ticks, which leaves every test of the loop (now - last_spawn_time >=    *)
(* ENEMY_SPAWN_EVERY) as it is.  The player steers the snake clockwise     *)
(* round the cells (0,1) .. (2,1), (2,2) .. (0,2), fires at the head       *)
(* centre within FireWindow ticks of the next spawn, and the spawned       *)
(* agents are of kind 1.                                                   *)
(***************************************************************************)
MaxLiveBullets == 2   \* projectiles alive at once in the endless run
FireWindow == 6       \* ticks before a spawn is due in which the player fires

TickLive(n) ==
    /\ pc = "tick"
    /\ dt' = n
    /\ last_spawn_time' = IF last_spawn_time - n < now - ENEMY_SPAWN_EVERY
                          THEN now - ENEMY_SPAWN_EVERY
                          ELSE last_spawn_time - n
    /\ pc' = "events"
    /\ UNCHANGED <<harness, snakeVars, queued_dir, x, y, path, game_over, bullets, enemies, now>>

FireLive(off) ==
    /\ pc = "events"
    /\ Len(bullets) < MaxLiveBullets
    /\ now - last_spawn_time >= ENEMY_SPAWN_EVERY - FireWindow
    /\ LET hx == x + SIZE \div 2
           hy == y + SIZE \div 2
       IN  /\ 0 <= hx + off[1] /\ hx + off[1] < RES
           /\ 0 <= hy + off[2] /\ hy + off[2] < RES
           /\ bullets' = Append(bullets, NewBullet(hx, hy, hx + off[1], hy + off[2]))
    /\ UNCHANGED <<harness, pc, dt, snakeVars, queued_dir, x, y, path, game_over, enemies, now, last_spawn_time>>

Steer ==
    CASE <<grid_x, grid_y>> = <<2, 1>> -> "s"
      [] <<grid_x, grid_y>> = <<2, 2>> -> "a"
      [] <<grid_x, grid_y>> = <<0, 2>> -> "w"
      [] <<grid_x, grid_y>> = <<0, 1>> -> "d"
      [] OTHER -> "other"

NextLive ==
    \/ TickLive(1)
    \/ KeyDown(Steer)
    \/ FireLive(<<0, 0>>)
    \/ EndEvents
    \/ StepBody
    \/ Interp("bullets", FALSE)
    \/ BulletPhase
    \/ \E cell \in SpawnCells : Spawn(1, cell)
    \/ NoSpawn
    \/ EnemyPhase
    \/ CollidePhase
    \/ HeadPhase
    \/ Render

\* the loop never waits: the event queue is always drained and every frame is drawn
SpecLive == InitGame /\ [][NextLive]_vars /\ WF_vars(EndEvents) /\ WF_vars(Render)

\* the oldest projectile is dropped by the projectile update that is about to run
FirstCulledNext == pc = "bullets" /\ bullets # <<>> /\ Culled(MoveBullet(Head(bullets), dt))

FramesKeepRunning == []<>(pc = "tick") /\ []<>(pc = "render")

\* C20: as long as frames keep running with dt > 0, every projectile that is
\* created is eventually removed from the projectile collection; in
\* particular, whenever the collection is not empty, its oldest projectile is
\* eventually dropped (out of bounds, or faded out after a hit).
ProjectilesRemoved == FramesKeepRunning => ((bullets # <<>>) ~> FirstCulledNext)

====
